---- MODULE Spec2Model ----
(***************************************************************************)
(* Crawl-and-classify pipeline of personamapper: URL frontier (CrawlUrl),  *)
(* sitemap discovery, the per-job crawl worker (WebCrawler.start_crawl),   *)
(* the in-process registry (CrawlerManager), the crawler routes (start,    *)
(* stop, reset, recrawl) and the mapping store (ContentMapping).           *)
(*                                                                         *)
(* One crawl job is modelled.  Database tables are sets of rows; a handler *)
(* is cut into steps at its database reads and its commits, because other  *)
(* threads (a second worker, a web request) may commit between them.       *)
(***************************************************************************)
EXTENDS Integers, Sequences, FiniteSets, TLC

\* ---------------------------------------------------------------- bounds
MaxRuns == 3      \* worker threads started in one behaviour
MaxClock == 2     \* classification passes (crawl timestamps) in one behaviour
MaxRows == 3      \* frontier rows ever inserted in one behaviour
MaxRequests == 1  \* operator requests (stop, reset, recrawl) in one behaviour
MaxDepth == 3     \* nesting depth of parse_sitemap calls in one discovery pass

\* ------------------------------------------------------ program constants
max_attempts == 3        \* CrawlUrl.mark_as_failed default threshold
max_pages == 2           \* CrawlJob.max_pages of the modelled job
max_retries == 3         \* WebCrawler.max_retries
CharsMin == 50           \* analyze_content_for_persona: minimum content length
ThresholdNum == 1        \* should_map: confidence > 0.1  (1/10)
ThresholdDen == 10
BoostCapNum == 3         \* frequency_boost cap 0.3 (3/10)
BoostCapDen == 10
TitleBonusNum == 2       \* title_bonus weight 0.2 (2/10)
UrlBonusNum == 1         \* url_bonus weight 0.1 (1/10)
ContentMinLength == 100  \* AIContentAnalyzer.analyze_page: CONTENT_MIN_LENGTH
SimilarityThreshold == 500  \* LOCAL_AI_SIMILARITY_THRESHOLD 0.5, in thousandths
JudgeMinScore == 30      \* _parse_openai_response: confidence > 30
HybridAiWeight == 7      \* _combine_analysis_results: 0.7 * ai
HybridKeywordWeight == 3 \*                            + 0.3 * keyword
ValidationDefault == 500 \* _validate_mapping_with_ai without a client: 0.5
DailyCostLimit == 10     \* AI_DAILY_COST_LIMIT default, dollars
MonthlyCostLimit == 100  \* AI_MONTHLY_COST_LIMIT default, dollars

NULL == "NULL"           \* Python None / SQL NULL

Workers == {"w1", "w2"}  \* thread slots for WebCrawler.start_crawl
Modes == {"incremental", "overwrite"}

\* --------------------------------------------------------- scenario data
\* URLs of the job's site.  The sitemap lists u1; the page at u1 links to
\* u2 twice (the same anchor occurs two times in the document).
Urls == {"u1", "u2"}
\* URLs listed by the sitemaps of the discovery scenarios; "ext" is on
\* another domain.
SitemapPages == {"p1", "p2", "p3", "p4", "p5"}
SitemapUrls == {"u1"}
LinksOf(u) == IF u = "u1" THEN <<"u2", "u2">> ELSE <<>>

\* Personas (read-only collaborators): keywords are lists of keywords, a
\* keyword is a list of words (one word, or a multi-word phrase).
Personas == {"A", "B", "C"}
PersonaActive(p) == p \in {"A", "B"}
Keywords(p) ==
  CASE p = "A" -> << <<"alpha">>, <<"beta">> >>
    [] p = "B" -> << <<"gamma">> >>
    [] p = "D" -> << <<"alpha", "beta">> >>
    [] OTHER   -> << <<"omega">> >>

\* Documents a fetch may return: character length of the extracted text and
\* the word list _extract_content_words yields for it.
AllDocs == {"dNone", "dA", "dAB"}
Docs == {"dNone", "dAB"}      \* documents the site serves in the crawl scenario
DocChars(d) == 60
DocWords(d) ==
  CASE d = "dA"  -> <<"alpha", "alpha", "alpha", "alpha", "alpha", "beta", "omega">>
    [] d = "dAB" -> <<"alpha", "gamma", "omega">>
    [] OTHER     -> <<"delta", "omega", "omega">>

\* ------------------------------------------------------------ classifier
\* content_words.count(keyword): a phrase never equals a single word.
CountWord(words, kw) ==
  IF Len(kw) = 1 THEN Cardinality({i \in DOMAIN words : words[i] = kw[1]}) ELSE 0

\* all(part in content_words for part in keyword.split())
PartialMatch(words, kw) ==
  /\ Len(kw) > 1
  /\ \A j \in DOMAIN kw : \E i \in DOMAIN words : words[i] = kw[j]

\* Variant: only the partial match of a phrase counts.
KeywordScore2_partial_only(words, kw) ==
  IF PartialMatch(words, kw) THEN 1 ELSE 0

\* Twice the keyword's contribution to total_keyword_score (0.5 for partial).
KeywordScore2(words, kw) ==
  IF CountWord(words, kw) > 0 THEN 2 * CountWord(words, kw)
  ELSE IF PartialMatch(words, kw) THEN 1 ELSE 0

RECURSIVE SumSeq(_)
SumSeq(s) == IF s = <<>> THEN 0 ELSE Head(s) + SumSeq(Tail(s))

Min(a, b) == IF a <= b THEN a ELSE b

\* Scores of the keyword matcher as exact rationals over the denominator
\* den = 2 * total_keywords * len(content_words) * 10; tm and um are the
\* numbers of keywords found in the title and in the URL (0 where the
\* function has no such bonus).
KeywordConfidence(words, kws, tm, um) ==
  LET total == Len(kws)
      n     == Len(words)
      unique == Cardinality({k \in DOMAIN kws : KeywordScore2(words, kws[k]) > 0})
      score2 == SumSeq([k \in DOMAIN kws |-> KeywordScore2(words, kws[k])])
      den   == 2 * total * n * BoostCapDen
      base  == unique * 2 * n * BoostCapDen
      boost == Min(score2 * total * BoostCapDen, BoostCapNum * 2 * total * n)
      bonus == tm * 2 * n * TitleBonusNum + um * 2 * n * UrlBonusNum
      num   == Min(base + boost + bonus, den)
  IN IF total = 0 \/ n = 0 \/ unique = 0
       THEN [matched |-> FALSE, num |-> 0, den |-> 1]
       ELSE [matched |-> TRUE, num |-> num, den |-> den]

\* ContentAnalyzer.analyze_content_for_persona on a content of chars
\* characters whose extracted words are words; confidence in thousandths.
analyze_content_for_persona(chars, words, kws) ==
  LET c == KeywordConfidence(words, kws, 0, 0)
  IN IF chars < CharsMin \/ ~c.matched
       THEN [should_map |-> FALSE, confidence |-> 0]
       ELSE [should_map |-> c.num * ThresholdDen > ThresholdNum * c.den,
             confidence |-> (c.num * 1000) \div c.den]

AnalyzeContentForPersona(d, p) ==
  analyze_content_for_persona(DocChars(d), DocWords(d), Keywords(p))

\* ---------------------------------------------------------- frontier rows
NewCrawlUrl(id, u, prio) ==
  [id |-> id, url |-> u, is_crawled |-> FALSE, failed_attempts |-> 0,
   is_failed |-> FALSE, last_error |-> NULL, priority |-> prio]

\* Variant: the failure counter survives a success.
mark_as_crawled_keeps_count(r) ==
  [r EXCEPT !.is_crawled = TRUE, !.is_failed = FALSE, !.last_error = NULL]

mark_as_crawled(r) ==
  [r EXCEPT !.is_crawled = TRUE, !.failed_attempts = 0,
            !.is_failed = FALSE, !.last_error = NULL]

\* Variant: the threshold comparison is strict.
mark_as_failed_strict(r, error_message) ==
  [r EXCEPT !.failed_attempts = r.failed_attempts + 1,
            !.last_error = error_message,
            !.is_failed = IF r.failed_attempts + 1 > max_attempts
                            THEN TRUE ELSE r.is_failed]

mark_as_failed(r, error_message) ==
  [r EXCEPT !.failed_attempts = r.failed_attempts + 1,
            !.last_error = error_message,
            !.is_failed = IF r.failed_attempts + 1 >= max_attempts
                            THEN TRUE ELSE r.is_failed]

\* SitemapService.reset_crawl_status_for_overwrite: UPDATE ... WHERE is_crawled
reset_crawl_status_for_overwrite(rows) ==
  {IF r.is_crawled THEN [r EXCEPT !.is_crawled = FALSE] ELSE r : r \in rows}


\* ----------------------------------------------------------------- state
VARIABLES
  crawl_urls,       \* table crawl_urls of the job: set of CrawlUrl rows
  next_url_id,      \* next primary key of crawl_urls
  pages,            \* table crawled_pages: url -> stored document, or NULL
  mappings,         \* table content_mappings: set of ContentMapping rows
  clock,            \* number of classification passes committed or attempted
  status,           \* CrawlJob.status
  crawl_mode,       \* CrawlJob.crawl_mode
  active_crawlers,  \* CrawlerManager registry entry of the job: worker or NULL
  wk,               \* per thread slot: the WebCrawler object and its position
  rc,               \* the recrawl_page request in progress
  op,               \* the stop / reset request in progress
  runs,             \* worker threads started so far
  requests,         \* operator requests (stop, reset, recrawl) served so far
  error_message,    \* CrawlJob.error_message
  sm,               \* the SitemapService object of a discovery pass
  call              \* a classifier or URL-filter call: arguments and result

vars == <<crawl_urls, next_url_id, pages, mappings, clock, status,
          crawl_mode, active_crawlers, wk, rc, op, runs, requests,
          error_message, sm, call>>

\* No discovery pass and no call under way.
NoSitemapPass == [pc |-> "none"]
NoCall == [fn |-> "none"]

\* CrawlJob.update_status(status): error_message defaults to None.
update_status(s) == status' = s /\ error_message' = NULL

\* registering: the start_crawl_job call that started the thread has not
\* stored the crawler in the registry yet.
IdleWorker ==
  [pc |-> "idle", should_stop |-> FALSE, is_running |-> FALSE,
   batch |-> <<>>, i |-> 0, prev |-> {}, doc |-> NULL, pending |-> {},
   registering |-> FALSE]

NoRecrawl == [pc |-> "none", url |-> NULL, doc |-> NULL, existing |-> {}]
NoOp == [pc |-> "none", kind |-> NULL, target |-> NULL, ended |-> FALSE]

\* The job as created, or the job after two earlier runs in each of which
\* the fetch of the sitemap URL u1 failed.
FreshFrontier == {}
TwiceFailedFrontier ==
  {[id |-> 1, url |-> "u1", is_crawled |-> FALSE, failed_attempts |-> 2,
    is_failed |-> FALSE, last_error |-> "Failed to fetch page", priority |-> 0]}

Init ==
  /\ \/ crawl_urls = FreshFrontier /\ next_url_id = 1 /\ status = "inactive"
     \/ crawl_urls = TwiceFailedFrontier /\ next_url_id = 2 /\ status = "completed"
  /\ pages = [u \in Urls |-> NULL]
  /\ mappings = {}
  /\ clock = 0
  /\ crawl_mode \in Modes
  /\ active_crawlers = NULL
  /\ wk = [w \in Workers |-> IdleWorker]
  /\ rc = NoRecrawl
  /\ op = NoOp
  /\ runs = 0
  /\ requests = 0
  /\ error_message = NULL
  /\ sm = NoSitemapPass
  /\ call = NoCall

\* --------------------------------------------------------------- helpers
RowIds(rows) == {r.id : r \in rows}
RowById(rows, id) == CHOOSE r \in rows : r.id = id

RECURSIVE SortedById(_)
SortedById(rows) ==
  IF rows = {} THEN <<>>
  ELSE LET m == CHOOSE r \in rows : \A q \in rows : r.id <= q.id
       IN <<m>> \o SortedById(rows \ {m})

Take(s, n) == SubSeq(s, 1, Min(n, Len(s)))

SeqRange(s) == {s[k] : k \in DOMAIN s}

\* The job of the model has base domain equal to the domain of every URL in
\* Urls and empty include / exclude pattern lists.
include_patterns == {}
exclude_patterns == {}
SameDomain(u) == u \in Urls \cup SitemapPages
MatchPattern(u, pat) == u = pat

\* SitemapService.should_include_url
should_include_url(u) ==
  /\ SameDomain(u)
  /\ include_patterns # {} => \E pat \in include_patterns : MatchPattern(u, pat)
  /\ \A pat \in exclude_patterns : ~MatchPattern(u, pat)

\* WebCrawler.is_valid_url_for_crawling
is_valid_url_for_crawling(u) ==
  /\ SameDomain(u)
  /\ include_patterns # {} => \E pat \in include_patterns : MatchPattern(u, pat)
  /\ \A pat \in exclude_patterns : ~MatchPattern(u, pat)

\* WebCrawler.should_crawl_url: in incremental mode a URL that already has a
\* CrawledPage of this job is rejected.
should_crawl_url(u) ==
  /\ SameDomain(u)
  /\ ~(crawl_mode = "incremental" /\ pages[u] # NULL)
  /\ include_patterns # {} => \E pat \in include_patterns : MatchPattern(u, pat)
  /\ \A pat \in exclude_patterns : ~MatchPattern(u, pat)

\* Rows inserted for a set of URLs, with consecutive primary keys.
RECURSIVE InsertUrls(_, _, _)
InsertUrls(us, id, prio) ==
  IF us = {} THEN {}
  ELSE LET u == CHOOSE x \in us : TRUE
       IN {NewCrawlUrl(id, u, prio)} \cup InsertUrls(us \ {u}, id + 1, prio)

ActivePersonas == {p \in Personas : PersonaActive(p)}

\* Primary key of the mapping inserted for persona p in classification pass n.
PersonaIndex(p) == CASE p = "A" -> 1 [] p = "B" -> 2 [] OTHER -> 3
MappingId(n, p) == 3 * n + PersonaIndex(p)

\* Rows analyze_and_map_content / recrawl_page insert for a page and document
\* in classification pass n: one per persona that should map.
NewMappings(ps, u, d, n, method, ts) ==
  {[id |-> MappingId(n, p), page |-> u, persona |-> p,
    confidence |-> AnalyzeContentForPersona(d, p).confidence,
    method |-> method, is_active |-> TRUE, crawl_timestamp |-> ts] :
     p \in {q \in ps : AnalyzeContentForPersona(d, q).should_map}}

\* ------------------------------------------------- CrawlerManager, routes
\* A new thread takes the first free slot.
Slot(w) == IF w = "w1" THEN 1 ELSE 2

\* A thread slot is free when its thread has ended and the call that
\* started it has returned.
Free(w) == wk[w].pc = "idle" /\ ~wk[w].registering

\* routes/crawler.py start_crawl_job + CrawlerManager.start_crawl_job up to
\* thread.start(): status guard, registry guard, thread start.  One start
\* request is served at a time.
StartRoute(w) ==
  /\ runs < MaxRuns
  /\ status # "running"
  /\ active_crawlers = NULL
  /\ \A v \in Workers : ~wk[v].registering
  /\ Free(w)
  /\ \A v \in Workers : Free(v) => Slot(v) >= Slot(w)
  /\ runs' = runs + 1
  /\ wk' = [wk EXCEPT ![w] = [IdleWorker EXCEPT !.pc = "load",
                                                !.registering = TRUE]]
  /\ UNCHANGED <<crawl_urls, next_url_id, pages, mappings, clock,
                 status, crawl_mode, active_crawlers, rc, op, requests,
                 error_message, sm, call>>

\* CrawlerManager.start_crawl_job after thread.start(): the crawler and its
\* thread are stored in the registry, whether the thread still runs or not.
Register(w) ==
  /\ wk[w].registering
  /\ active_crawlers' = w
  /\ wk' = [wk EXCEPT ![w].registering = FALSE]
  /\ UNCHANGED <<crawl_urls, next_url_id, pages, mappings, clock,
                 status, crawl_mode, rc, op, runs, requests,
                 error_message, sm, call>>

\* The step of a worker during which it blocks on the network for longer
\* than the 10 s join timeout of stop_crawl_job: fetch_page with its 30 s
\* request timeout, three attempts and backoff.
Blocking(w) == wk[w].pc = "fetch"

\* crawler.stop_crawl() on the registered crawler; the crawler of a thread
\* that has ended is an object nothing reads any more.
Signalled ==
  IF wk[active_crawlers].pc = "idle" THEN wk
  ELSE [wk EXCEPT ![active_crawlers].should_stop = TRUE]

\* routes/crawler.py stop_crawl_job up to thread.join: the route's guard, then
\* CrawlerManager.stop_crawl_job signals the registered crawler; when none is
\* registered the manager returns False and the route sets the status itself.
StopRoute ==
  /\ op.pc = "none"
  /\ requests < MaxRequests
  /\ requests' = requests + 1
  /\ status = "running" \/ active_crawlers # NULL
  /\ IF active_crawlers = NULL
       THEN /\ update_status("inactive")
            /\ UNCHANGED <<wk, op>>
       ELSE /\ wk' = Signalled
            /\ op' = [pc |-> "join", kind |-> "stop", target |-> active_crawlers,
                      ended |-> wk[active_crawlers].pc = "idle"]
            /\ UNCHANGED <<status, error_message>>
  /\ UNCHANGED <<crawl_urls, next_url_id, pages, mappings, clock,
                 crawl_mode, active_crawlers, rc, runs,
                 sm, call>>

\* routes/crawler.py reset_crawl_job up to thread.join: force the status to
\* inactive, then stop the registered crawler if there is one.
ResetRoute ==
  /\ op.pc = "none"
  /\ requests < MaxRequests
  /\ requests' = requests + 1
  /\ update_status("inactive")
  /\ IF active_crawlers = NULL
       THEN UNCHANGED <<wk, op>>
       ELSE /\ wk' = Signalled
            /\ op' = [pc |-> "join", kind |-> "reset", target |-> active_crawlers,
                      ended |-> wk[active_crawlers].pc = "idle"]
  /\ UNCHANGED <<crawl_urls, next_url_id, pages, mappings, clock,
                 crawl_mode, active_crawlers, rc, runs,
                 sm, call>>

\* Return value of CrawlerManager.stop_crawl_job once the join is over:
\* del self.active_crawlers[crawl_job_id] raises KeyError when the entry is
\* gone, and the except branch returns False.
stop_crawl_job_returns == active_crawlers # NULL

\* CrawlerManager.stop_crawl_job after thread.join(timeout=10) returns: the
\* thread has ended, or the timeout expired while it blocks.  The registry
\* entry is deleted; if the worker removed it already the manager returns
\* False and the stop route falls back to setting the status.
JoinReturn ==
  /\ op.pc = "join"
  /\ op.ended \/ Blocking(op.target)
  /\ active_crawlers' = NULL
  /\ IF ~stop_crawl_job_returns /\ op.kind = "stop"
       THEN update_status("inactive")
       ELSE UNCHANGED <<status, error_message>>
  /\ op' = NoOp
  /\ UNCHANGED <<crawl_urls, next_url_id, pages, mappings, clock,
                 crawl_mode, wk, rc, runs, requests,
                 sm, call>>

\* --------------------------------------------------- WebCrawler.start_crawl
\* load_crawl_job, control flags, update_job_status('running'); then step 1:
\* the job's frontier rows are counted and discovery runs only if there are none.
Load(w) ==
  /\ wk[w].pc = "load"
  /\ wk' = [wk EXCEPT ![w].pc = IF crawl_urls = {} THEN "parse" ELSE "reset",
                      ![w].is_running = TRUE, ![w].should_stop = FALSE]
  /\ update_status("running")
  /\ UNCHANGED <<crawl_urls, next_url_id, pages, mappings, clock,
                 crawl_mode, active_crawlers, rc, op, runs, requests,
                 sm, call>>

\* discover_and_store_urls: the sitemaps are downloaded and filtered, then
\* store_urls looks every discovered URL up and adds the missing ones.
discovered_urls == {u \in SitemapUrls : should_include_url(u)}

\* store_urls: the found URLs that have no row of the job yet.
NotStored(found, rows) == {u \in found : ~\E r \in rows : r.url = u}

\* store_urls without the lookup of an existing row.
MissingUrls_no_lookup(rows) == discovered_urls

\* store_urls: the discovered URLs that have no row of the job yet.
MissingUrls(rows) == NotStored(discovered_urls, rows)

ParseSitemaps(w) ==
  /\ wk[w].pc = "parse"
  /\ wk' = [wk EXCEPT ![w].pc = "store", ![w].pending = MissingUrls(crawl_urls)]
  /\ UNCHANGED <<crawl_urls, next_url_id, pages, mappings, clock,
                 status, crawl_mode, active_crawlers, rc, op, runs, requests,
                 error_message, sm, call>>

\* store_urls: commit of the added rows.
StoreUrls(w) ==
  /\ wk[w].pc = "store"
  /\ next_url_id + Cardinality(wk[w].pending) - 1 <= MaxRows
  /\ crawl_urls' = crawl_urls \cup InsertUrls(wk[w].pending, next_url_id, 0)
  /\ next_url_id' = next_url_id + Cardinality(wk[w].pending)
  /\ wk' = [wk EXCEPT ![w].pc = "reset", ![w].pending = {}]
  /\ UNCHANGED <<pages, mappings, clock, status, crawl_mode,
                 active_crawlers, rc, op, runs, requests,
                 error_message, sm, call>>

\* Step 2: overwrite mode resets the crawl status of the frontier.
ResetForOverwrite(w) ==
  /\ wk[w].pc = "reset"
  /\ crawl_urls' = IF crawl_mode = "overwrite"
                     THEN reset_crawl_status_for_overwrite(crawl_urls)
                     ELSE crawl_urls
  /\ wk' = [wk EXCEPT ![w].pc = "claim"]
  /\ UNCHANGED <<next_url_id, pages, mappings, clock, status,
                 crawl_mode, active_crawlers, rc, op, runs, requests,
                 error_message, sm, call>>

\* Step 3: rows not crawled and not failed, at most max_pages of them.
Eligible(rows) == {r \in rows : ~r.is_crawled /\ ~r.is_failed}
\* Variant: the batch query without its LIMIT.
claim_batch_unlimited(rows, limit) ==
  LET s == SortedById(Eligible(rows))
  IN [k \in DOMAIN s |-> [id |-> s[k].id, url |-> s[k].url]]

claim_batch(rows, limit) ==
  LET s == Take(SortedById(Eligible(rows)), limit)
  IN [k \in DOMAIN s |-> [id |-> s[k].id, url |-> s[k].url]]
urls_to_crawl(rows) == claim_batch(rows, max_pages)

ClaimBatch(w) ==
  /\ wk[w].pc = "claim"
  /\ LET b == urls_to_crawl(crawl_urls)
     IN IF b = <<>>
          THEN /\ update_status("completed")
               /\ wk' = [wk EXCEPT ![w].pc = "finally"]
          ELSE /\ wk' = [wk EXCEPT ![w].pc = "iter", ![w].batch = b, ![w].i = 1]
               /\ UNCHANGED <<status, error_message>>
  /\ UNCHANGED <<crawl_urls, next_url_id, pages, mappings, clock,
                 crawl_mode, active_crawlers, rc, op, runs, requests,
                 sm, call>>


\* Step 4, top of the loop body: stop flag, then re-validation of the URL.
\* A rejected URL is deleted from the frontier.  Reading the url attribute of
\* a row that was deleted meanwhile raises once the object has been expired
\* by an earlier commit of this session.
CurId(w) == wk[w].batch[wk[w].i].id
CurUrl(w) == wk[w].batch[wk[w].i].url

Iterate(w) ==
  /\ wk[w].pc = "iter"
  /\ IF wk[w].i > Len(wk[w].batch) \/ wk[w].should_stop
       THEN /\ wk' = [wk EXCEPT ![w].pc = "finish"]
            /\ UNCHANGED crawl_urls
       ELSE IF wk[w].i > 1 /\ CurId(w) \notin RowIds(crawl_urls)
       THEN /\ wk' = [wk EXCEPT ![w].pc = "except"]
            /\ UNCHANGED crawl_urls
       ELSE IF ~should_crawl_url(CurUrl(w))
       THEN /\ crawl_urls' = {r \in crawl_urls : r.id # CurId(w)}
            /\ wk' = [wk EXCEPT ![w].i = wk[w].i + 1]
       ELSE /\ wk' = [wk EXCEPT ![w].pc = "fetch"]
            /\ UNCHANGED crawl_urls
  /\ UNCHANGED <<next_url_id, pages, mappings, clock, status,
                 crawl_mode, active_crawlers, rc, op, runs, requests,
                 error_message, sm, call>>

\* The UPDATE of a frontier row that no longer exists raises out of the loop.
UpdateRow(w, f(_)) ==
  IF CurId(w) \in RowIds(crawl_urls)
    THEN /\ crawl_urls' = {IF r.id = CurId(w) THEN f(r) ELSE r : r \in crawl_urls}
         /\ wk' = [wk EXCEPT ![w].pc = "iter", ![w].i = wk[w].i + 1,
                             ![w].prev = {}, ![w].doc = NULL, ![w].pending = {}]
    ELSE /\ wk' = [wk EXCEPT ![w].pc = "except"]
         /\ UNCHANGED crawl_urls

\* Variant: the failure is noted without counting it.
FailFetch_no_count(r) == [r EXCEPT !.last_error = "Failed to fetch page"]

FailFetch(r) == mark_as_failed(r, "Failed to fetch page")

\* crawl_page_from_sitemap: fetch_page exhausted its retries.
FetchFail(w) ==
  /\ wk[w].pc = "fetch"
  /\ UpdateRow(w, FailFetch)
  /\ UNCHANGED <<next_url_id, pages, mappings, clock, status,
                 crawl_mode, active_crawlers, rc, op, runs, requests,
                 error_message, sm, call>>

\* fetch_page and extract_content succeeded; save_page upserts the page.
FetchOk(w) ==
  /\ wk[w].pc = "fetch"
  /\ \E d \in Docs : pages' = [pages EXCEPT ![CurUrl(w)] = d]
  /\ wk' = [wk EXCEPT ![w].pc = "analyze"]
  /\ UNCHANGED <<crawl_urls, next_url_id, mappings, clock, status,
                 crawl_mode, active_crawlers, rc, op, runs, requests,
                 error_message, sm, call>>

\* analyze_and_map_content, reads: the page's content and its currently
\* active mappings.
AnalyzeRead(w) ==
  /\ wk[w].pc = "analyze"
  /\ clock < MaxClock
  /\ wk' = [wk EXCEPT ![w].pc = "map",
                      ![w].doc = pages[CurUrl(w)],
                      ![w].prev = {m.id : m \in {x \in mappings :
                                     x.page = CurUrl(w) /\ x.is_active}}]
  /\ UNCHANGED <<crawl_urls, next_url_id, pages, mappings, clock,
                 status, crawl_mode, active_crawlers, rc, op, runs, requests,
                 error_message, sm, call>>

\* analyze_and_map_content, commit: previous mappings are deactivated and one
\* mapping per persona that should map is inserted.  When a previous mapping
\* was deleted meanwhile its UPDATE matches no row, the flush raises, the
\* session is rolled back and the error is swallowed.
\* Variant: a deactivated mapping is also stamped with the time of the pass.
analyze_and_map_content_restamp(ms, prev, u, d, n, ts) ==
  {IF m.id \in prev THEN [m EXCEPT !.is_active = FALSE, !.crawl_timestamp = ts]
                     ELSE m : m \in ms}
  \cup NewMappings(ActivePersonas, u, d, n, "automated_crawl", ts)

analyze_and_map_content(ms, prev, u, d, n, ts) ==
  {IF m.id \in prev THEN [m EXCEPT !.is_active = FALSE] ELSE m : m \in ms}
  \cup NewMappings(ActivePersonas, u, d, n, "automated_crawl", ts)

AnalyzeCommit(w) ==
  /\ wk[w].pc = "map"
  /\ mappings' = IF wk[w].prev \subseteq RowIds(mappings)
                   THEN analyze_and_map_content(mappings, wk[w].prev, CurUrl(w),
                                                wk[w].doc, clock + 1, clock + 1)
                   ELSE mappings
  /\ clock' = clock + 1
  /\ wk' = [wk EXCEPT ![w].pc = "links"]
  /\ UNCHANGED <<crawl_urls, next_url_id, pages, status, crawl_mode,
                 active_crawlers, rc, op, runs, requests,
                 error_message, sm, call>>

\* discover_and_store_new_urls, reads: every extracted link is looked up; a
\* link already added in this loop is found by the autoflushed session.
extract_links(u) ==
  LET s == LinksOf(u) IN {s[k] : k \in {j \in DOMAIN s : is_valid_url_for_crawling(s[j])}}

LinksRead(w) ==
  /\ wk[w].pc = "links"
  /\ LET new == {l \in extract_links(CurUrl(w)) : ~\E r \in crawl_urls : r.url = l}
     IN wk' = [wk EXCEPT ![w].pc = IF new = {} THEN "mark" ELSE "addlinks",
                         ![w].pending = new]
  /\ UNCHANGED <<crawl_urls, next_url_id, pages, mappings, clock,
                 status, crawl_mode, active_crawlers, rc, op, runs, requests,
                 error_message, sm, call>>

\* discover_and_store_new_urls, commit of the new rows (priority 1).
LinksCommit(w) ==
  /\ wk[w].pc = "addlinks"
  /\ next_url_id + Cardinality(wk[w].pending) - 1 <= MaxRows
  /\ crawl_urls' = crawl_urls \cup InsertUrls(wk[w].pending, next_url_id, 1)
  /\ next_url_id' = next_url_id + Cardinality(wk[w].pending)
  /\ wk' = [wk EXCEPT ![w].pc = "mark", ![w].pending = {}]
  /\ UNCHANGED <<pages, mappings, clock, status, crawl_mode,
                 active_crawlers, rc, op, runs, requests,
                 error_message, sm, call>>

\* crawl_url.mark_as_crawled() after a successful crawl_page_from_sitemap.
MarkCrawled(w) ==
  /\ wk[w].pc = "mark"
  /\ UpdateRow(w, mark_as_crawled)
  /\ UNCHANGED <<next_url_id, pages, mappings, clock, status,
                 crawl_mode, active_crawlers, rc, op, runs, requests,
                 error_message, sm, call>>

\* Final status after the loop.
Finish(w) ==
  /\ wk[w].pc = "finish"
  /\ update_status(IF wk[w].should_stop THEN "inactive" ELSE "completed")
  /\ wk' = [wk EXCEPT ![w].pc = "finally"]
  /\ UNCHANGED <<crawl_urls, next_url_id, pages, mappings, clock,
                 crawl_mode, active_crawlers, rc, op, runs, requests,
                 sm, call>>

\* except Exception: update_job_status('failed').
Except(w) ==
  /\ wk[w].pc = "except"
  /\ update_status("failed")
  /\ wk' = [wk EXCEPT ![w].pc = "finally"]
  /\ UNCHANGED <<crawl_urls, next_url_id, pages, mappings, clock,
                 crawl_mode, active_crawlers, rc, op, runs, requests,
                 sm, call>>

\* finally: the running flag is cleared and the job's registry entry is
\* removed, whichever crawler it refers to.
Finally(w) ==
  /\ wk[w].pc = "finally"
  /\ active_crawlers' = NULL
  /\ wk' = [wk EXCEPT ![w] = [IdleWorker EXCEPT
                                 !.registering = wk[w].registering]]
  /\ op' = IF op.pc = "join" /\ op.target = w THEN [op EXCEPT !.ended = TRUE] ELSE op
  /\ UNCHANGED <<crawl_urls, next_url_id, pages, mappings, clock,
                 status, crawl_mode, rc, runs, requests,
                 error_message, sm, call>>


\* ------------------------------------------------- routes: recrawl_page
\* recrawl_page up to the query of the page's existing mappings: the page is
\* fetched and its new content extracted.
RecrawlFetch(u) ==
  /\ rc.pc = "none"
  /\ requests < MaxRequests
  /\ requests' = requests + 1
  /\ pages[u] # NULL
  /\ clock < MaxClock
  /\ \E d \in Docs :
       rc' = [pc |-> "commit", url |-> u, doc |-> d,
              existing |-> {m.id : m \in {x \in mappings : x.page = u}}]
  /\ UNCHANGED <<crawl_urls, next_url_id, pages, mappings, clock,
                 status, crawl_mode, active_crawlers, wk, op, runs,
                 error_message, sm, call>>

\* recrawl_page: the existing mappings of the page are deleted and the new
\* ones inserted (is_active defaults to true, no crawl timestamp).
recrawl_page(ms, existing, u, d, n) ==
  {m \in ms : m.id \notin existing}
  \cup NewMappings(ActivePersonas, u, d, n, "manual_recrawl", 0)

RecrawlCommit ==
  /\ rc.pc = "commit"
  /\ mappings' = recrawl_page(mappings, rc.existing, rc.url, rc.doc, clock + 1)
  /\ pages' = [pages EXCEPT ![rc.url] = rc.doc]
  /\ clock' = clock + 1
  /\ rc' = NoRecrawl
  /\ UNCHANGED <<crawl_urls, next_url_id, status, crawl_mode, active_crawlers,
                 wk, op, runs, requests,
                 error_message, sm, call>>

\* ---------------------------------------------- cleanup_duplicate_mappings
\* Among the active mappings of one (page, persona) the one with the highest
\* confidence is kept, the most recently created on a tie.
Better(a, b) ==
  \/ a.confidence > b.confidence
  \/ a.confidence = b.confidence /\ a.id > b.id

cleanup_duplicate_mappings(ms) ==
  {m \in ms : ~(m.is_active /\ \E o \in ms :
                  /\ o.is_active /\ o.page = m.page /\ o.persona = m.persona
                  /\ Better(o, m))}

CleanupDuplicates ==
  /\ cleanup_duplicate_mappings(mappings) # mappings
  /\ mappings' = cleanup_duplicate_mappings(mappings)
  /\ UNCHANGED <<crawl_urls, next_url_id, pages, clock, status,
                 crawl_mode, active_crawlers, wk, rc, op, runs, requests,
                 error_message, sm, call>>

\* ------------------------------------------ discovery as a function
\* discover_and_store_urls run on its own over a frontier: the rows after
\* the pass, given the rows before and the next primary key.
discover_and_store_urls(rows, id) ==
  rows \cup InsertUrls(MissingUrls(rows), id, 0)

\* The states a frontier row can hold.
FrontierRows(u, id) ==
  {[id |-> id, url |-> u, is_crawled |-> c, failed_attempts |-> n,
    is_failed |-> (n >= max_attempts),
    last_error |-> IF n = 0 THEN NULL ELSE "Failed to fetch page",
    priority |-> prio] :
     c \in BOOLEAN, n \in 0..max_attempts, prio \in {0, 1}}

\* Any frontier over Urls with one row per URL; nothing else has happened.
InitDiscovery ==
  /\ \/ crawl_urls = {} /\ next_url_id = 1
     \/ \E u \in Urls : \E r \in FrontierRows(u, 1) :
          crawl_urls = {r} /\ next_url_id = 2
     \/ \E r1 \in FrontierRows("u1", 1) : \E r2 \in FrontierRows("u2", 2) :
          crawl_urls = {r1, r2} /\ next_url_id = 3
  /\ pages = [u \in Urls |-> NULL]
  /\ mappings = {}
  /\ clock = 0
  /\ status = "inactive"
  /\ crawl_mode = "incremental"
  /\ active_crawlers = NULL
  /\ wk = [w \in Workers |-> IdleWorker]
  /\ rc = NoRecrawl
  /\ op = NoOp
  /\ runs = 0
  /\ requests = 0
  /\ error_message = NULL
  /\ sm = NoSitemapPass
  /\ call = NoCall

\* One discovery pass; runs counts the passes made.
Rediscover ==
  /\ runs < MaxRuns
  /\ runs' = runs + 1
  /\ crawl_urls' = discover_and_store_urls(crawl_urls, next_url_id)
  /\ next_url_id' = next_url_id + Cardinality(MissingUrls(crawl_urls))
  /\ UNCHANGED <<pages, mappings, clock, status, crawl_mode,
                 active_crawlers, wk, rc, op, requests,
                 error_message, sm, call>>

\* Between passes a claimable row is crawled: its fetch fails or succeeds.
RowOutcome ==
  /\ \E r \in Eligible(crawl_urls) :
       \/ crawl_urls' = (crawl_urls \ {r}) \cup {mark_as_crawled(r)}
       \/ crawl_urls' = (crawl_urls \ {r}) \cup {FailFetch(r)}
  /\ crawl_urls' # crawl_urls
  /\ UNCHANGED <<next_url_id, pages, mappings, clock, status, crawl_mode,
                 active_crawlers, wk, rc, op, runs, requests,
                 error_message, sm, call>>

NextDiscovery == Rediscover \/ RowOutcome

SpecDiscovery == InitDiscovery /\ [][NextDiscovery]_vars

\* ------------------------------------------- discovery over sitemap files
\* Sitemap locations of the site: s0 and s1 are at common paths that
\* get_sitemap_urls tries (/sitemap_index.xml, /sitemap.xml); s2 is only
\* referenced from other sitemaps.
Locs == {"s0", "s1", "s2"}
get_sitemap_urls == <<"s0", "s1">>

Missing == [kind |-> "missing", children |-> <<>>, urls |-> <<>>]
IndexDoc(ch) == [kind |-> "index", children |-> ch, urls |-> <<>>]
UrlSetDoc(us) == [kind |-> "urlset", children |-> <<>>, urls |-> us]

\* What a location may serve: nothing (404), a sitemap index, or a URL set.
SitemapDocs ==
  {Missing}
  \cup {IndexDoc(ch) : ch \in {<<"s1", "s2">>, <<"s0">>, <<"s2", "s0">>}}
  \cup {UrlSetDoc(us) : us \in {<<"p1", "p2", "p3">>, <<"p3", "p4", "p5">>,
                                  <<"p1", "ext", "p1">>}}

\* An index of two sub-sitemaps with three URLs each, one URL in both.
ExampleSite ==
  [l \in Locs |-> CASE l = "s0" -> IndexDoc(<<"s1", "s2">>)
                    [] l = "s1" -> UrlSetDoc(<<"p1", "p2", "p3">>)
                    [] OTHER    -> UrlSetDoc(<<"p3", "p4", "p5">>)]

\* Variant: only the first <loc> of a URL set is read.
extract_urls_first_only(doc) ==
  IF doc.urls = <<>> THEN {} ELSE {doc.urls[1]}

\* extract_urls_from_sitemap, as the set of the listed URLs.
extract_urls_from_sitemap(doc) == SeqRange(doc.urls)

\* parse_sitemap, filter loop: the URLs added to self.discovered_urls.
FilteredUrls(doc) == {u \in extract_urls_from_sitemap(doc) : should_include_url(u)}

Frame(l) == [url |-> l, fetched |-> FALSE, todo |-> <<>>]
Top == sm.stack[Len(sm.stack)]
Pop(st) == SubSeq(st, 1, Len(st) - 1)

\* A SitemapService on an empty frontier, about to walk its candidates.
InitSitemap ==
  /\ \E site \in [Locs -> SitemapDocs] :
       sm = [pc |-> "parse", site |-> site, next |-> 1, stack |-> <<>>,
             discovered_urls |-> {}, fetches |-> [l \in Locs |-> 0]]
  /\ crawl_urls = {}
  /\ next_url_id = 1
  /\ pages = [u \in Urls |-> NULL]
  /\ mappings = {}
  /\ clock = 0
  /\ status = "running"
  /\ crawl_mode = "incremental"
  /\ active_crawlers = NULL
  /\ wk = [w \in Workers |-> IdleWorker]
  /\ rc = NoRecrawl
  /\ op = NoOp
  /\ runs = 0
  /\ requests = 0
  /\ error_message = NULL
  /\ call = NoCall

SitemapUnchanged ==
  UNCHANGED <<next_url_id, pages, mappings, clock, status, crawl_mode,
              active_crawlers, wk, rc, op, runs, requests, error_message, call>>

\* discover_and_store_urls, loop over the candidate locations.
ParseCandidate ==
  /\ sm.pc = "parse" /\ sm.stack = <<>>
  /\ sm.next <= Len(get_sitemap_urls)
  /\ sm' = [sm EXCEPT !.stack = <<Frame(get_sitemap_urls[sm.next])>>,
                      !.next = sm.next + 1]
  /\ UNCHANGED crawl_urls
  /\ SitemapUnchanged

\* parse_sitemap: the GET of the sitemap.  A missing file raises and the
\* call returns []; a URL set is filtered into discovered_urls; an index
\* yields its child locations.
FetchSitemap ==
  /\ sm.pc = "parse" /\ sm.stack # <<>> /\ ~Top.fetched
  /\ LET l == Top.url
         doc == sm.site[l]
         counted == [sm EXCEPT !.fetches[l] = sm.fetches[l] + 1]
     IN sm' = CASE doc.kind = "index" ->
                     [counted EXCEPT !.stack[Len(sm.stack)] =
                        [url |-> l, fetched |-> TRUE, todo |-> doc.children]]
                [] doc.kind = "urlset" ->
                     [counted EXCEPT !.stack = Pop(sm.stack),
                        !.discovered_urls = sm.discovered_urls \cup FilteredUrls(doc)]
                [] OTHER -> [counted EXCEPT !.stack = Pop(sm.stack)]
  /\ UNCHANGED crawl_urls
  /\ SitemapUnchanged

\* parse_sitemap, loop over the children of an index: the recursive call.
\* At the nesting limit the call raises and the child is skipped.
ParseChild ==
  /\ sm.pc = "parse" /\ sm.stack # <<>> /\ Top.fetched /\ Top.todo # <<>>
  /\ LET rest == [sm EXCEPT !.stack[Len(sm.stack)].todo = Tail(Top.todo)]
     IN sm' = IF Len(sm.stack) < MaxDepth
                THEN [rest EXCEPT !.stack = Append(rest.stack, Frame(Head(Top.todo)))]
                ELSE rest
  /\ UNCHANGED crawl_urls
  /\ SitemapUnchanged

\* parse_sitemap of an index returns once its children are done.
ReturnFromIndex ==
  /\ sm.pc = "parse" /\ sm.stack # <<>> /\ Top.fetched /\ Top.todo = <<>>
  /\ sm' = [sm EXCEPT !.stack = Pop(sm.stack)]
  /\ UNCHANGED crawl_urls
  /\ SitemapUnchanged

\* store_urls over self.discovered_urls, after the last candidate.
StoreDiscovered ==
  /\ sm.pc = "parse" /\ sm.stack = <<>>
  /\ sm.next > Len(get_sitemap_urls)
  /\ crawl_urls' = crawl_urls \cup
       InsertUrls(NotStored(sm.discovered_urls, crawl_urls), next_url_id, 0)
  /\ next_url_id' = next_url_id
                     + Cardinality(NotStored(sm.discovered_urls, crawl_urls))
  /\ sm' = [sm EXCEPT !.pc = "done"]
  /\ UNCHANGED <<pages, mappings, clock, status, crawl_mode,
                 active_crawlers, wk, rc, op, runs, requests, error_message, call>>

NextSitemap ==
  \/ ParseCandidate
  \/ FetchSitemap
  \/ ParseChild
  \/ ReturnFromIndex
  \/ StoreDiscovered

SpecSitemap == InitSitemap /\ [][NextSitemap]_vars

\* ------------------------------------------------ URL filters on strings
\* Strings are sequences of characters.  "S" stands for the escape %73,
\* which unquote decodes to "s".
unquote(str) == [k \in DOMAIN str |-> IF str[k] = "S" THEN "s" ELSE str[k]]

IndexOf(str, c) ==
  IF \E k \in DOMAIN str : str[k] = c
    THEN CHOOSE k \in DOMAIN str : str[k] = c /\ \A j \in 1..(k - 1) : str[j] # c
    ELSE 0

Before(str, c) == IF IndexOf(str, c) = 0 THEN str ELSE SubSeq(str, 1, IndexOf(str, c) - 1)
After(str, c) == IF IndexOf(str, c) = 0 THEN <<>> ELSE SubSeq(str, IndexOf(str, c) + 1, Len(str))

\* re.match of the translated pattern at the start of the text: "*" became
\* ".*" and "?" became ".", every other character of the alphabet matches
\* itself.
RECURSIVE MatchHere(_, _)
MatchHere(pat, text) ==
  IF pat = <<>> THEN TRUE
  ELSE IF Head(pat) = "*"
    THEN MatchHere(Tail(pat), text) \/ (text # <<>> /\ MatchHere(pat, Tail(text)))
  ELSE IF text = <<>> THEN FALSE
  ELSE (Head(pat) = "?" \/ Head(pat) = Head(text)) /\ MatchHere(Tail(pat), Tail(text))

\* match_pattern: re.search, an unanchored match anywhere in the text.
match_pattern(text, pat) ==
  \E k \in 1..(Len(text) + 1) : MatchHere(pat, SubSeq(text, k, Len(text)))

\* urlparse: the URLs of the model are https URLs of the job's domain with
\* an extension-less path, [path, query]; the whole URL is scheme, host,
\* path and, if there is a query, "?" and the query.
UrlString(url) ==
  <<"h", ":", "x">> \o url.path \o (IF url.query = <<>> THEN <<>> ELSE <<"?">> \o url.query)

\* parse_qs: the query is split at "&", each piece at its first "="; pieces
\* without "=" or with an empty value are dropped; names and values are
\* unquoted.
RECURSIVE SplitAmp(_)
SplitAmp(q) ==
  IF q = <<>> THEN <<>>
  ELSE IF IndexOf(q, "&") = 0 THEN <<q>>
  ELSE <<Before(q, "&")>> \o SplitAmp(After(q, "&"))

parse_qs(q) ==
  {<<unquote(Before(piece, "=")), unquote(After(piece, "="))>> :
     piece \in {x \in SeqRange(SplitAmp(q)) : IndexOf(x, "=") # 0 /\ After(x, "=") # <<>>}}

\* The exclude loop of should_crawl_url and is_valid_url_for_crawling.
ExcludedByCrawler(url, pat) ==
  \/ match_pattern(url.path, pat)
  \/ match_pattern(url.query, pat)
  \/ /\ IndexOf(pat, "=") # 0
     /\ \E kv \in parse_qs(url.query) :
          /\ match_pattern(kv[1], Before(pat, "="))
          /\ match_pattern(kv[2], After(pat, "="))

IncludedBy(url, inc) ==
  inc # <<>> => \E k \in DOMAIN inc : match_pattern(UrlString(url), inc[k])

\* should_crawl_url of a crawler that has not visited or stored the URL.
should_crawl_url_str(url, inc, exc) ==
  IncludedBy(url, inc) /\ \A k \in DOMAIN exc : ~ExcludedByCrawler(url, exc[k])

\* is_valid_url_for_crawling.
is_valid_url_for_crawling_str(url, inc, exc) ==
  IncludedBy(url, inc) /\ \A k \in DOMAIN exc : ~ExcludedByCrawler(url, exc[k])

\* SitemapService.should_include_url: exclude patterns are searched in the
\* URL as a whole.
should_include_url_str(url, inc, exc) ==
  IncludedBy(url, inc) /\ \A k \in DOMAIN exc : ~match_pattern(UrlString(url), exc[k])

\* URLs and patterns of the filter scenarios.
FilterPaths == {<<"/", "p">>, <<"/", "s">>}
FilterQueries ==
  {<<>>, <<"s", "=", "f">>, <<"S", "=", "f">>, <<"p", "=", "s">>,
   <<"f", "=", "p", "&", "s", "=", "f">>}
FilterPatterns ==
  {<<"s", "=", "*">>, <<"x">>, <<"p", "?", "s">>, <<"/", "p">>, <<"f">>}
PatternLists == {<<>>} \cup {<<pat>> : pat \in FilterPatterns}

InitFilter ==
  /\ \E path \in FilterPaths, query \in FilterQueries, inc, exc \in PatternLists :
       call = [fn |-> "pending", url |-> [path |-> path, query |-> query],
               include_patterns |-> inc, exclude_patterns |-> exc, result |-> FALSE]
  /\ crawl_urls = {}
  /\ next_url_id = 1
  /\ pages = [u \in Urls |-> NULL]
  /\ mappings = {}
  /\ clock = 0
  /\ status = "inactive"
  /\ crawl_mode = "overwrite"
  /\ active_crawlers = NULL
  /\ wk = [w \in Workers |-> IdleWorker]
  /\ rc = NoRecrawl
  /\ op = NoOp
  /\ runs = 0
  /\ requests = 0
  /\ error_message = NULL
  /\ sm = NoSitemapPass

CallUnchanged ==
  UNCHANGED <<crawl_urls, next_url_id, pages, mappings, clock, status, crawl_mode,
              active_crawlers, wk, rc, op, runs, requests, error_message, sm>>

CallShouldCrawlUrl ==
  /\ call.fn = "pending"
  /\ call' = [call EXCEPT !.fn = "should_crawl_url",
                 !.result = should_crawl_url_str(call.url, call.include_patterns,
                                                 call.exclude_patterns)]
  /\ CallUnchanged

CallIsValidUrlForCrawling ==
  /\ call.fn = "pending"
  /\ call' = [call EXCEPT !.fn = "is_valid_url_for_crawling",
                 !.result = is_valid_url_for_crawling_str(call.url, call.include_patterns,
                                                          call.exclude_patterns)]
  /\ CallUnchanged

CallShouldIncludeUrl ==
  /\ call.fn = "pending"
  /\ call' = [call EXCEPT !.fn = "should_include_url",
                 !.result = should_include_url_str(call.url, call.include_patterns,
                                                   call.exclude_patterns)]
  /\ CallUnchanged

NextFilter ==
  \/ CallShouldCrawlUrl
  \/ CallIsValidUrlForCrawling
  \/ CallShouldIncludeUrl

SpecFilter == InitFilter /\ [][NextFilter]_vars

\* -------------------------------------------------- classifier strategies
\* Results are [mapped, confidence], confidence in thousandths.
NoMapping == [mapped |-> FALSE, confidence |-> 0]
Clamp01(x) == IF x < 0 THEN 0 ELSE IF x > 1000 THEN 1000 ELSE x

\* ContentAnalyzer.analyze_page for one persona (_calculate_persona_match).
KeywordMapping(chars, words, kws, tm, um) ==
  LET c == KeywordConfidence(words, kws, tm, um)
  IN IF chars < CharsMin \/ ~c.matched
          \/ ~(c.num * ThresholdDen > ThresholdNum * c.den)
       THEN NoMapping
       ELSE [mapped |-> TRUE, confidence |-> (c.num * 1000) \div c.den]

\* _analyze_with_sentence_transformer: cosine similarity clamped to [0,1].
EmbeddingMapping(similarity) ==
  IF Clamp01(similarity) > SimilarityThreshold
    THEN [mapped |-> TRUE, confidence |-> Clamp01(similarity)]
    ELSE NoMapping

\* _parse_openai_response: the score of the response divided by 100.
JudgeMapping(score) ==
  IF score > JudgeMinScore
    THEN [mapped |-> TRUE, confidence |-> score * 10]
    ELSE NoMapping

\* AIContentAnalyzer strategies run only on content of the minimum length.
AiMapping(backend, score, similarity) ==
  IF backend = "openai" THEN JudgeMapping(score) ELSE EmbeddingMapping(similarity)

\* _combine_analysis_results for one persona.
HybridMapping(ai, kw) ==
  IF ai.mapped /\ kw.mapped
    THEN [mapped |-> TRUE,
          confidence |-> (HybridAiWeight * ai.confidence
                          + HybridKeywordWeight * kw.confidence) \div 10]
  ELSE IF ai.mapped THEN ai
  ELSE kw

\* _analyze_with_validation / _validate_mapping_with_ai for one persona.
ValidationMapping(backend, score, kw) ==
  IF ~kw.mapped THEN NoMapping
  ELSE LET ai_confidence == IF backend = "openai" THEN Clamp01(score * 10)
                            ELSE ValidationDefault
       IN [mapped |-> TRUE, confidence |-> (kw.confidence + ai_confidence) \div 2]

\* Inputs of the classifier scenarios.
ExampleWords == <<"alpha", "alpha", "alpha", "alpha", "alpha", "beta">>
ContentWords ==
  {<<>>, <<"gamma">>, <<"delta">>, <<"beta", "alpha">>, <<"alpha", "gamma", "delta">>,
   ExampleWords, DocWords("dA")}
ContentChars == {49, 50, 120}
ScoringPersonas == {"A", "B", "D"}
JudgeScores == {0, 31, 85, 150}
Similarities == {-200, 600, 1000}
Backends == {"openai", "local"}

InitClassifier ==
  /\ \E words \in ContentWords, chars \in ContentChars, p \in ScoringPersonas,
        tm \in {0, 1}, um \in {0, 1}, score \in JudgeScores,
        similarity \in Similarities, backend \in Backends :
       call = [fn |-> "pending", words |-> words, chars |-> chars, persona |-> p,
               title_matches |-> tm, url_matches |-> um, score |-> score,
               similarity |-> similarity, backend |-> backend, result |-> NoMapping]
  /\ crawl_urls = {}
  /\ next_url_id = 1
  /\ pages = [u \in Urls |-> NULL]
  /\ mappings = {}
  /\ clock = 0
  /\ status = "inactive"
  /\ crawl_mode = "overwrite"
  /\ active_crawlers = NULL
  /\ wk = [w \in Workers |-> IdleWorker]
  /\ rc = NoRecrawl
  /\ op = NoOp
  /\ runs = 0
  /\ requests = 0
  /\ error_message = NULL
  /\ sm = NoSitemapPass

Returned(fn, res) ==
  /\ call.fn = "pending"
  /\ call' = [call EXCEPT !.fn = fn, !.result = res]
  /\ CallUnchanged

CallKw ==
  KeywordMapping(call.chars, call.words, Keywords(call.persona),
                 call.title_matches, call.url_matches)

\* The crawl path: analyze_content_for_persona.
ClassifyForCrawl ==
  LET r == analyze_content_for_persona(call.chars, call.words, Keywords(call.persona))
  IN Returned("analyze_content_for_persona",
              [mapped |-> r.should_map, confidence |-> r.confidence])

ClassifyKeyword == Returned("keyword", CallKw)

ClassifyEmbedding ==
  Returned("embedding", IF call.chars < ContentMinLength THEN NoMapping
                        ELSE EmbeddingMapping(call.similarity))

ClassifyJudge ==
  Returned("judge", IF call.chars < ContentMinLength THEN NoMapping
                    ELSE JudgeMapping(call.score))

ClassifyHybrid ==
  Returned("hybrid", IF call.chars < ContentMinLength THEN NoMapping
                     ELSE HybridMapping(AiMapping(call.backend, call.score,
                                                  call.similarity), CallKw))

ClassifyValidation ==
  Returned("validation", IF call.chars < ContentMinLength THEN NoMapping
                         ELSE ValidationMapping(call.backend, call.score, CallKw))

NextClassifier ==
  \/ ClassifyForCrawl
  \/ ClassifyKeyword
  \/ ClassifyEmbedding
  \/ ClassifyJudge
  \/ ClassifyHybrid
  \/ ClassifyValidation

SpecClassifier == InitClassifier /\ [][NextClassifier]_vars

\* ------------------------------------------------ the batch query alone
\* The batch query of start_crawl run on its own over a frontier of three
\* rows in any state, for a job whose max_pages is limit.  A frontier in
\* which a link-discovered row precedes a sitemap row arises when a second
\* worker stores the sitemap rows after the first has stored links.
InitBatch ==
  /\ \E r1 \in FrontierRows("u1", 1), r2 \in FrontierRows("u2", 2),
        r3 \in FrontierRows("p1", 3) :
       crawl_urls = {r1, r2, r3}
  /\ next_url_id = 4
  /\ \E limit \in 1..max_pages :
       call = [fn |-> "pending", limit |-> limit, batch |-> <<>>]
  /\ pages = [u \in Urls |-> NULL]
  /\ mappings = {}
  /\ clock = 0
  /\ status = "running"
  /\ crawl_mode = "incremental"
  /\ active_crawlers = NULL
  /\ wk = [w \in Workers |-> IdleWorker]
  /\ rc = NoRecrawl
  /\ op = NoOp
  /\ runs = 0
  /\ requests = 0
  /\ error_message = NULL
  /\ sm = NoSitemapPass

CallClaimBatch ==
  /\ call.fn = "pending"
  /\ call' = [call EXCEPT !.fn = "claim_batch",
                          !.batch = claim_batch(crawl_urls, call.limit)]
  /\ CallUnchanged

NextBatch == CallClaimBatch

SpecBatch == InitBatch /\ [][NextBatch]_vars

\* ------------------------------------- AI modes: cost limit and errors
\* AIContentAnalyzer.analyze_page with an OpenAI client, on content of at
\* least the minimum length.  The call record carries the tracked costs,
\* whether the backend request raises, and the number of backend requests
\* made for the page.
\* _check_cost_limits raises CostLimitExceededError.
CostLimitExceeded(c) ==
  c.daily_cost > DailyCostLimit \/ c.monthly_cost > MonthlyCostLimit

\* _analyze_with_openai: the limits are checked before the request; the
\* outcome is the parsed mappings, or an exception.
analyze_with_openai(c) ==
  IF CostLimitExceeded(c) THEN [raised |-> TRUE, ai_calls |-> 0, mapping |-> NoMapping]
  ELSE IF c.backend_error THEN [raised |-> TRUE, ai_calls |-> 1, mapping |-> NoMapping]
  ELSE [raised |-> FALSE, ai_calls |-> 1, mapping |-> JudgeMapping(c.score)]

\* _validate_mapping_with_ai: the request is made without a look at the
\* limits; an exception gives the default 0.5.
validate_mapping_with_ai(c) ==
  IF c.backend_error THEN ValidationDefault ELSE Clamp01(c.score * 10)

InitFallback ==
  /\ \E words \in {ExampleWords, <<"gamma">>, <<"delta">>}, p \in {"A", "B"},
        score \in {20, 85}, daily \in {0, DailyCostLimit + 1},
        monthly \in {0, MonthlyCostLimit + 1}, err \in BOOLEAN :
       call = [fn |-> "pending", words |-> words, chars |-> ContentMinLength,
               persona |-> p, title_matches |-> 0, url_matches |-> 0,
               score |-> score, daily_cost |-> daily, monthly_cost |-> monthly,
               backend_error |-> err, ai_calls |-> 0, result |-> NoMapping]
  /\ crawl_urls = {}
  /\ next_url_id = 1
  /\ pages = [u \in Urls |-> NULL]
  /\ mappings = {}
  /\ clock = 0
  /\ status = "inactive"
  /\ crawl_mode = "overwrite"
  /\ active_crawlers = NULL
  /\ wk = [w \in Workers |-> IdleWorker]
  /\ rc = NoRecrawl
  /\ op = NoOp
  /\ runs = 0
  /\ requests = 0
  /\ error_message = NULL
  /\ sm = NoSitemapPass

\* analysis_mode 'ai': any exception of _analyze_with_openai falls back to
\* the keyword analysis.
AnalyzeModeAi ==
  /\ call.fn = "pending"
  /\ LET ai == analyze_with_openai(call)
     IN call' = [call EXCEPT !.fn = "ai", !.ai_calls = ai.ai_calls,
                             !.result = IF ai.raised THEN CallKw ELSE ai.mapping]
  /\ CallUnchanged

\* analysis_mode 'hybrid': an exception of the AI part leaves ai_mappings
\* empty and the keyword mappings are combined with nothing.
AnalyzeModeHybrid ==
  /\ call.fn = "pending"
  /\ LET ai == analyze_with_openai(call)
     IN call' = [call EXCEPT !.fn = "hybrid", !.ai_calls = ai.ai_calls,
                             !.result = HybridMapping(ai.mapping, CallKw)]
  /\ CallUnchanged

\* analysis_mode 'validation': every keyword mapping is rated by the backend.
AnalyzeModeValidation ==
  /\ call.fn = "pending"
  /\ call' = IF ~CallKw.mapped
               THEN [call EXCEPT !.fn = "validation", !.result = NoMapping]
               ELSE [call EXCEPT !.fn = "validation", !.ai_calls = 1,
                       !.result = [mapped |-> TRUE,
                                   confidence |-> (CallKw.confidence
                                        + validate_mapping_with_ai(call)) \div 2]]
  /\ CallUnchanged

NextFallback == AnalyzeModeAi \/ AnalyzeModeHybrid \/ AnalyzeModeValidation

SpecFallback == InitFallback /\ [][NextFallback]_vars

\* ---------------------------------------------- fetch_page for one URL
\* fetch_page and the loop's handling of its result for one claimed row.
\* An HTTP attempt ends with a response, with a requests exception (timeout,
\* connection error, HTTP error status) or with any other exception.
Outcomes == {"ok", "request_error", "unexpected_error"}

\* time.sleep(2 ** attempt)
Backoff(attempt) == 2 ^ attempt

\* Variant: a backoff follows the last attempt too.
NoMoreAttempts_one_more(attempt) == attempt >= max_retries

\* attempt < self.max_retries - 1 fails: the attempts are used up.
NoMoreAttempts(attempt) == attempt >= max_retries - 1

\* One iteration of the retry loop, attempt counted from 0.
fetch_attempt(c, outcome) ==
  LET made == [c EXCEPT !.requests = c.requests + 1]
  IN CASE outcome = "ok" ->
            [made EXCEPT !.pc = "returned", !.result = "page"]
       [] outcome = "unexpected_error" ->
            [made EXCEPT !.pc = "returned", !.result = NULL]
       [] OTHER ->
            IF NoMoreAttempts(c.attempt)
              THEN [made EXCEPT !.pc = "returned", !.result = NULL]
              ELSE [made EXCEPT !.attempt = c.attempt + 1,
                                !.sleeps = Append(c.sleeps, Backoff(c.attempt))]

InitFetch ==
  /\ \E u \in Urls : \E r \in Eligible(FrontierRows(u, 1)) :
       /\ crawl_urls = {r}
       /\ call = [fn |-> "fetch_page", pc |-> "try", url |-> u, attempt |-> 0,
                  requests |-> 0, sleeps |-> <<>>, result |-> NULL, before |-> r]
  /\ next_url_id = 2
  /\ pages = [u \in Urls |-> NULL]
  /\ mappings = {}
  /\ clock = 0
  /\ status = "running"
  /\ crawl_mode = "incremental"
  /\ active_crawlers = NULL
  /\ wk = [w \in Workers |-> IdleWorker]
  /\ rc = NoRecrawl
  /\ op = NoOp
  /\ runs = 0
  /\ requests = 0
  /\ error_message = NULL
  /\ sm = NoSitemapPass

\* session.get of fetch_page and the handling of its outcome.
FetchAttempt ==
  /\ call.fn = "fetch_page" /\ call.pc = "try"
  /\ call.attempt < max_retries
  /\ \E outcome \in Outcomes : call' = fetch_attempt(call, outcome)
  /\ CallUnchanged

\* The loop of start_crawl after crawl_page_from_sitemap: success marks the
\* row crawled, a failure result is recorded with mark_as_failed.
RecordResult ==
  /\ call.fn = "fetch_page" /\ call.pc = "returned"
  /\ crawl_urls' = {IF call.result = NULL THEN FailFetch(r) ELSE mark_as_crawled(r) :
                      r \in crawl_urls}
  /\ call' = [call EXCEPT !.fn = "start_crawl", !.pc = "next_url"]
  /\ UNCHANGED <<next_url_id, pages, mappings, clock, status, crawl_mode,
                 active_crawlers, wk, rc, op, runs, requests, error_message, sm>>

NextFetch == FetchAttempt \/ RecordResult

SpecFetch == InitFetch /\ [][NextFetch]_vars

\* ------------------------------------------- repeated runs of one job
\* Runs of the job one after the other, without end, over a frontier of
\* three admissible rows (one more than max_pages); no links are found and
\* the configuration does not change.  The call record holds the position
\* of the run under way, its batch, and the rows fetched so far in any run.
\* A row as it may stand between two runs.
RestingRows(u, id) ==
  {r \in FrontierRows(u, id) : r.priority = 0 /\ ~(r.is_crawled /\ r.failed_attempts > 0)}

\* A crawled row has its page stored; an uncrawled row has one when an
\* earlier run ended between save_page and mark_as_crawled.
InitRepeated(mode) ==
  /\ \E r1 \in RestingRows("u1", 1), r2 \in RestingRows("u2", 2),
        r3 \in RestingRows("p1", 3) :
       /\ crawl_urls = {r1, r2, r3}
       /\ pages \in [{"u1", "u2", "p1"} -> {NULL, "dNone"}]
       /\ \A r \in {r1, r2, r3} : r.is_crawled => pages[r.url] # NULL
  /\ next_url_id = 4
  /\ call = [fn |-> "start_crawl", pc |-> "idle", batch |-> <<>>, i |-> 0,
             fetched |-> {}, fetches |-> 0]
  /\ mappings = {}
  /\ clock = 0
  /\ status = "inactive"
  /\ crawl_mode = mode
  /\ active_crawlers = NULL
  /\ wk = [w \in Workers |-> IdleWorker]
  /\ rc = NoRecrawl
  /\ op = NoOp
  /\ runs = 0
  /\ requests = 0
  /\ error_message = NULL
  /\ sm = NoSitemapPass

RepeatedUnchanged ==
  UNCHANGED <<next_url_id, mappings, clock, crawl_mode,
              active_crawlers, wk, rc, op, runs, requests, sm>>

\* start_crawl up to the loop: status running, the reset of overwrite mode,
\* the batch query; an empty batch completes the run at once.
RunStart ==
  /\ call.pc = "idle"
  /\ LET rows == IF crawl_mode = "overwrite"
                   THEN reset_crawl_status_for_overwrite(crawl_urls)
                   ELSE crawl_urls
         b == urls_to_crawl(rows)
     IN /\ crawl_urls' = rows
        /\ IF b = <<>>
             THEN /\ update_status("completed")
                  /\ call' = [call EXCEPT !.batch = b, !.i = 0, !.fetches = 0]
             ELSE /\ update_status("running")
                  /\ call' = [call EXCEPT !.pc = "loop", !.batch = b, !.i = 1,
                                          !.fetches = 0]
  /\ UNCHANGED pages
  /\ RepeatedUnchanged

\* One pass of the loop body: a URL that fails the re-validation is deleted
\* from the frontier; otherwise the page is fetched and the row is marked
\* crawled, or the fetch fails and the failure is recorded.
RunFetch ==
  /\ call.pc = "loop"
  /\ call.i <= Len(call.batch)
  /\ LET id == call.batch[call.i].id
         url == call.batch[call.i].url
     IN IF ~should_crawl_url(url)
          THEN /\ crawl_urls' = {r \in crawl_urls : r.id # id}
               /\ call' = [call EXCEPT !.i = call.i + 1]
               /\ UNCHANGED pages
          ELSE /\ \/ /\ crawl_urls' = {IF r.id = id THEN mark_as_crawled(r) ELSE r :
                                          r \in crawl_urls}
                       /\ \E d \in Docs : pages' = [pages EXCEPT ![url] = d]
                    \/ /\ crawl_urls' = {IF r.id = id THEN FailFetch(r) ELSE r :
                                          r \in crawl_urls}
                       /\ UNCHANGED pages
               /\ call' = [call EXCEPT !.i = call.i + 1,
                                       !.fetched = call.fetched \cup {id},
                                       !.fetches = call.fetches + 1]
  /\ UNCHANGED <<status, error_message>>
  /\ RepeatedUnchanged

\* The loop is over: final status completed.
RunEnd ==
  /\ call.pc = "loop"
  /\ call.i > Len(call.batch)
  /\ update_status("completed")
  /\ call' = [call EXCEPT !.pc = "idle"]
  /\ UNCHANGED <<crawl_urls, pages>>
  /\ RepeatedUnchanged

NextRepeated == RunStart \/ RunFetch \/ RunEnd

\* Every run that is started goes on, and a new run is started again and
\* again.
SpecOverwrite ==
  InitRepeated("overwrite") /\ [][NextRepeated]_vars /\ WF_vars(NextRepeated)

SpecIncremental ==
  InitRepeated("incremental") /\ [][NextRepeated]_vars /\ WF_vars(NextRepeated)

\* ------------------------------------------------------------ behaviours
Next ==
  \/ \E w \in Workers : StartRoute(w)
  \/ \E w \in Workers : Register(w)
  \/ StopRoute
  \/ ResetRoute
  \/ JoinReturn
  \/ \E w \in Workers : Load(w)
  \/ \E w \in Workers : ParseSitemaps(w)
  \/ \E w \in Workers : StoreUrls(w)
  \/ \E w \in Workers : ResetForOverwrite(w)
  \/ \E w \in Workers : ClaimBatch(w)
  \/ \E w \in Workers : Iterate(w)
  \/ \E w \in Workers : FetchFail(w)
  \/ \E w \in Workers : FetchOk(w)
  \/ \E w \in Workers : AnalyzeRead(w)
  \/ \E w \in Workers : AnalyzeCommit(w)
  \/ \E w \in Workers : LinksRead(w)
  \/ \E w \in Workers : LinksCommit(w)
  \/ \E w \in Workers : MarkCrawled(w)
  \/ \E w \in Workers : Finish(w)
  \/ \E w \in Workers : Except(w)
  \/ \E w \in Workers : Finally(w)
  \/ \E u \in Urls : RecrawlFetch(u)
  \/ RecrawlCommit
  \/ CleanupDuplicates

Spec == Init /\ [][Next]_vars


\* ======================================================================
\* Properties
\* ======================================================================

\* C1: every frontier row has failed_attempts < 3 exactly when its
\* permanent-failure flag is false.
C1_FailureFlagMatchesCount ==
  \A r \in crawl_urls : (r.failed_attempts < max_attempts) <=> ~r.is_failed

\* A row that reached the threshold and is flagged.
C1_Witness ==
  \E r \in crawl_urls : r.is_failed /\ r.failed_attempts >= max_attempts

\* C7: the step that records a success (mark_as_crawled) leaves the row
\* crawled with failed_attempts 0, no permanent-failure flag and no last
\* error, whatever the row held before.
C7_MarkSuccessClears ==
  [][\A w \in Workers :
       (wk[w].pc = "mark" /\ wk'[w].pc = "iter") =>
         \E r \in crawl_urls' :
           /\ r.id = CurId(w)
           /\ r.is_crawled /\ r.failed_attempts = 0
           /\ ~r.is_failed /\ r.last_error = NULL]_vars

\* mark_as_crawled is about to act on a row that carries failures.
C7_Witness ==
  \E w \in Workers :
    /\ wk[w].pc = "mark"
    /\ \E r \in crawl_urls :
         r.id = CurId(w) /\ r.failed_attempts > 0 /\ r.last_error # NULL

\* C8: a discovery pass that follows an earlier pass over the same sitemap
\* set and job configuration adds no frontier row and changes none.
C8_DiscoveryIdempotent ==
  [][(runs >= 1 /\ runs' = runs + 1) => crawl_urls' = crawl_urls]_vars

\* Two passes were made over a frontier that at first held only a row for
\* u2: the first pass added the row of the sitemap URL u1 with key 2.
C8_Witness ==
  /\ runs >= 2
  /\ \E r \in crawl_urls : r.url = "u1" /\ r.id = 2 /\ r.priority = 0
  /\ \E r \in crawl_urls : r.url = "u2" /\ r.id = 1

\* C2: each (page, persona) pair has at most one active mapping.
C2_OneActiveMappingPerPair ==
  \A m1, m2 \in mappings :
    (m1.page = m2.page /\ m1.persona = m2.persona
       /\ m1.is_active /\ m2.is_active) => m1.id = m2.id

\* C3: at most one worker of the job is between its start and the end of
\* its finally block.
C3_OneActiveRun ==
  Cardinality({w \in Workers : wk[w].pc # "idle"}) <= 1

\* C4: the number of mapping rows recorded for a page never decreases.
C4_MappingHistoryGrows ==
  [][\A u \in Urls :
       Cardinality({m \in mappings' : m.page = u})
         >= Cardinality({m \in mappings : m.page = u})]_vars

\* C5: when the run records a page as a success, the personas holding an
\* active mapping on the page are the active personas that should map on the
\* page's stored content, with exactly one active mapping each.
C5_ActiveMappingsMatchLastCrawl ==
  [][\A w \in Workers :
       (wk[w].pc = "mark" /\ wk'[w].pc = "iter") =>
         LET act == {m \in mappings : m.page = CurUrl(w) /\ m.is_active}
             exp == {p \in ActivePersonas :
                       AnalyzeContentForPersona(pages[CurUrl(w)], p).should_map}
         IN {m.persona : m \in act} = exp
            /\ Cardinality(act) = Cardinality(exp)]_vars

\* C6: a row that has become permanently failed stays permanently failed
\* with its last error, and no batch claimed afterwards contains it.
C6_PermanentFailureIsFinal ==
  [][\A r \in crawl_urls : r.is_failed =>
       /\ \A q \in crawl_urls' :
            q.id = r.id => (q.is_failed /\ q.last_error # NULL)
       /\ \A w \in Workers :
            (wk[w].pc = "claim" /\ wk'[w].pc = "iter") =>
              \A k \in DOMAIN wk'[w].batch : wk'[w].batch[k].id # r.id]_vars

\* C9: no two frontier rows of the job share a URL.
C9_UniqueUrlPerJob ==
  \A r1, r2 \in crawl_urls : r1.url = r2.url => r1.id = r2.id

\* C10: the reset step of an overwrite-mode run, which precedes the claim of
\* the batch, leaves every row that was crawled uncrawled with
\* failed_attempts 0, no permanent-failure flag and no last error.
C10_OverwriteResetClearsRow ==
  [][\A w \in Workers :
       (wk[w].pc = "reset" /\ wk'[w].pc = "claim" /\ crawl_mode = "overwrite") =>
         \A r \in crawl_urls : r.is_crawled =>
           \E q \in crawl_urls' :
             /\ q.id = r.id /\ ~q.is_crawled /\ q.failed_attempts = 0
             /\ ~q.is_failed /\ q.last_error = NULL]_vars

\* C14: a run writes the status running over inactive, completed or failed;
\* its final write is inactive, completed or failed; and once no run is
\* under way the status is not running.
Terminal == {"inactive", "completed", "failed"}

C14_RunStatusTransitions ==
  [][/\ \A w \in Workers :
          (wk[w].pc = "load" /\ wk'[w].pc # "load") =>
            (status \in Terminal /\ status' = "running")
     /\ \A w \in Workers :
          (wk[w].pc \in {"claim", "finish", "except"} /\ wk'[w].pc = "finally") =>
            (wk[w].is_running /\ status' \in Terminal)
     /\ (\A w \in Workers : wk'[w].pc = "idle") => status' \in Terminal]_vars

\* C15: while stop_crawl_job waits for the run it has signalled, that run
\* begins no further URL fetch.
C15_NoFetchAfterStop ==
  [][\A w \in Workers :
       (op.pc = "join" /\ op.target = w /\ ~op.ended /\ wk[w].pc = "iter")
         => wk'[w].pc # "fetch"]_vars

\* C17: a worker's page upsert or mapping change for a URL becomes visible
\* only in the step that records the URL as crawled in the frontier, so that
\* a crash before that step leaves none of them behind.
C17_OneUnitPerUrl ==
  [][\A w \in Workers :
       (wk[w].pc # "idle" /\ wk'[w] # wk[w]
          /\ (pages' # pages \/ mappings' # mappings)) =>
         \E r \in crawl_urls' \ crawl_urls : r.id = CurId(w) /\ r.is_crawled]_vars

\* C18: the except branch of start_crawl leaves the job failed with a
\* recorded error message, and the finally block clears the running flag
\* and the registry entry.
C18_FailureRecordsMessage ==
  [][\A w \in Workers :
       /\ (wk[w].pc = "except" /\ wk'[w].pc = "finally") =>
            (status' = "failed" /\ error_message' # NULL)
       /\ (wk[w].pc = "finally" /\ wk'[w].pc = "idle") =>
            (~wk'[w].is_running /\ active_crawlers' = NULL)]_vars

\* C20: right after the reset step of an overwrite-mode run every frontier
\* row of the job is claimable: uncrawled, failed_attempts 0, not failed.
C20_OverwriteResetMakesAllEligible ==
  [][\A w \in Workers :
       (wk[w].pc = "reset" /\ wk'[w].pc = "claim" /\ crawl_mode = "overwrite") =>
         \A r \in crawl_urls' :
           ~r.is_crawled /\ r.failed_attempts = 0 /\ ~r.is_failed]_vars

\* C11: after a discovery pass on an empty frontier each admissible URL
\* listed by a fetched sitemap has exactly one frontier row, however many
\* sitemaps list it; the index of two sub-sitemaps of three URLs with one
\* URL in common gives exactly five rows.
C11_EachUrlStoredOnce ==
  sm.pc = "done" =>
    /\ \A r1, r2 \in crawl_urls : r1.url = r2.url => r1.id = r2.id
    /\ {r.url : r \in crawl_urls} =
         UNION {FilteredUrls(sm.site[l]) : l \in {x \in Locs : sm.fetches[x] > 0}}
    /\ sm.site = ExampleSite => Cardinality(crawl_urls) = 5

\* The pass over the example index has stored its rows.
C11_Witness ==
  sm.pc = "done" /\ sm.site = ExampleSite /\ Cardinality(crawl_urls) = 5

\* C19: a discovery pass fetches each sitemap location at most once.
C19_EachSitemapFetchedOnce ==
  sm.pc # "none" => \A l \in Locs : sm.fetches[l] <= 1

\* C12: each of the three URL filters admits a URL exactly when the URL
\* matches an include pattern (if any is configured) and no exclude pattern
\* matches its path, its raw query string or a decoded query parameter.
Admissible(url, inc, exc) ==
  /\ inc # <<>> => \E k \in DOMAIN inc : match_pattern(UrlString(url), inc[k])
  /\ \A k \in DOMAIN exc :
       /\ ~match_pattern(url.path, exc[k])
       /\ ~match_pattern(url.query, exc[k])
       /\ IndexOf(exc[k], "=") # 0 =>
            ~\E kv \in parse_qs(url.query) :
               /\ match_pattern(kv[1], Before(exc[k], "="))
               /\ match_pattern(kv[2], After(exc[k], "="))

C12_FiltersAgreeWithRule ==
  call.fn \in {"should_crawl_url", "is_valid_url_for_crawling", "should_include_url"} =>
    call.result = Admissible(call.url, call.include_patterns, call.exclude_patterns)

\* C13: a keyword of the persona occurs in the content: as a word, or all
\* words of a phrase occur.
KeywordOccurs(words, p) ==
  \E k \in DOMAIN Keywords(p) :
    \A j \in DOMAIN Keywords(p)[k] :
      \E i \in DOMAIN words : words[i] = Keywords(p)[k][j]

HasExampleCounts(words) ==
  /\ CountWord(words, <<"alpha">>) = 5
  /\ CountWord(words, <<"beta">>) = 1
  /\ CountWord(words, <<"gamma">>) = 0

\* C13 as stated: content with "alpha" five times, "beta" once and no
\* "gamma" gives a mapping for A with confidence > 0 and none for B, and a
\* persona is mapped only if one of its keywords occurs in the content.
C13_KeywordExample ==
  call.fn = "analyze_content_for_persona" =>
    /\ (HasExampleCounts(call.words) /\ call.persona = "A") =>
         (call.result.mapped /\ call.result.confidence > 0)
    /\ (HasExampleCounts(call.words) /\ call.persona = "B") => ~call.result.mapped
    /\ call.result.mapped => KeywordOccurs(call.words, call.persona)

\* C13 amended: the same for content of at least 50 characters.
C13_KeywordExampleLongContent ==
  call.fn = "analyze_content_for_persona" =>
    /\ (HasExampleCounts(call.words) /\ call.persona = "A" /\ call.chars >= CharsMin) =>
         (call.result.mapped /\ call.result.confidence > 0)
    /\ (HasExampleCounts(call.words) /\ call.persona = "B") => ~call.result.mapped
    /\ call.result.mapped => KeywordOccurs(call.words, call.persona)

\* The example content, long enough, has been classified for persona A.
C13_Witness ==
  /\ call.fn = "analyze_content_for_persona"
  /\ call.words = ExampleWords /\ call.chars >= CharsMin
  /\ call.persona = "A" /\ call.result.mapped

\* C16: every classification result has a confidence within [0,1],
\* whatever the strategy.
C16_ConfidenceInUnitInterval ==
  call.fn \in {"analyze_content_for_persona", "keyword", "embedding", "judge",
               "hybrid", "validation"} =>
    (call.result.confidence >= 0 /\ call.result.confidence <= 1000)

\* C21: when a claimed batch leaves eligible rows out, no row left out has a
\* lower priority value than a row of the batch, or the same priority and
\* an earlier discovery (rows are inserted in the order of their keys).
C21_BatchOrderedByPriority ==
  call.fn = "claim_batch" =>
    LET ids == {call.batch[k].id : k \in DOMAIN call.batch}
    IN \A out \in Eligible(crawl_urls) : \A in \in Eligible(crawl_urls) :
         (out.id \notin ids /\ in.id \in ids) =>
           ~(\/ out.priority < in.priority
             \/ out.priority = in.priority /\ out.id < in.id)

\* C22: the batch a run claims holds only rows that are uncrawled and not
\* permanently failed, at most max_pages of them and each once; the run
\* fetches only the URL of the batch entry at its loop index, and the index
\* moves forward by one after every entry, so a run fetches at most
\* max_pages URLs and no batch entry twice.
InLoopBody == {"fetch", "analyze", "map", "links", "addlinks", "mark"}

C22_RunFetchesOnlyItsBatch ==
  [][\A w \in Workers :
       /\ (wk[w].pc = "claim" /\ wk'[w].pc = "iter") =>
            /\ Len(wk'[w].batch) <= max_pages
            /\ wk'[w].i = 1
            /\ \A k \in DOMAIN wk'[w].batch :
                 /\ \E r \in Eligible(crawl_urls) :
                      r.id = wk'[w].batch[k].id /\ r.url = wk'[w].batch[k].url
                 /\ \A j \in DOMAIN wk'[w].batch :
                      wk'[w].batch[j].id = wk'[w].batch[k].id => j = k
       /\ (wk[w].pc = "iter" /\ wk'[w].pc = "fetch") =>
            (wk'[w].i \in DOMAIN wk'[w].batch /\ wk'[w].i = wk[w].i)
       /\ (wk[w].pc \in InLoopBody \cup {"iter"} /\ wk'[w].pc \in InLoopBody \cup {"iter"}) =>
            /\ wk'[w].batch = wk[w].batch
            /\ wk'[w].i >= wk[w].i
       /\ (wk[w].pc \in InLoopBody /\ wk'[w].pc = "iter") =>
            wk'[w].i = wk[w].i + 1]_vars

\* A run fetches the last entry of a full batch while an eligible row
\* enqueued by link extraction waits outside the batch.
C22_Witness ==
  \E w \in Workers :
    /\ wk[w].pc = "fetch"
    /\ wk[w].i = max_pages /\ Len(wk[w].batch) = max_pages
    /\ \E r \in Eligible(crawl_urls) :
         \A k \in DOMAIN wk[w].batch : wk[w].batch[k].id # r.id

\* C23: a step of a run that removes a frontier row removes a row whose URL
\* violates the job's domain / include / exclude rules and records no
\* failure on any row; so with the configuration unchanged a row whose URL
\* was admissible when it was enqueued is never removed.
C23_DeleteOnlyInadmissible ==
  [][\A r \in crawl_urls :
       r.id \notin RowIds(crawl_urls') =>
         /\ ~is_valid_url_for_crawling(r.url)
         /\ \A q \in crawl_urls' : q \in crawl_urls]_vars

\* C24: fetch_page makes at most 3 HTTP requests for a URL; it sleeps 1 s,
\* then 2 s, only before a further attempt, never after the last; it always
\* returns, with a failure result when no attempt succeeded; and the run
\* records that result as one failure of the frontier row, goes on to the
\* next URL and leaves the job status alone.
C24_FetchRetriesBounded ==
  call.fn \in {"fetch_page", "start_crawl"} =>
    /\ call.requests <= 3
    /\ \A k \in DOMAIN call.sleeps : call.sleeps[k] = 2 ^ (k - 1)
    /\ call.pc = "try" => Len(call.sleeps) = call.requests /\ call.requests < 3
    /\ call.pc \in {"returned", "next_url"} =>
         /\ call.requests >= 1
         /\ Len(call.sleeps) = call.requests - 1
    /\ call.pc = "next_url" =>
         /\ status = "running"
         /\ call.result = NULL =>
              \E r \in crawl_urls :
                /\ r.id = call.before.id
                /\ r.failed_attempts = call.before.failed_attempts + 1
                /\ r.last_error # NULL /\ ~r.is_crawled

\* All three attempts failed after backoffs of 1 s and 2 s and the failure
\* was recorded on a row that had failed before.
C24_Witness ==
  /\ call.fn = "start_crawl" /\ call.pc = "next_url"
  /\ call.requests = 3 /\ call.sleeps = <<1, 2>> /\ call.result = NULL
  /\ call.before.failed_attempts = 1

\* C25: in every AI mode, when the tracked cost exceeds the daily or the
\* monthly limit no backend request is made for the page and the result
\* is the keyword strategy's result; and when the backend request fails
\* the result is the keyword strategy's result.
C25_FallbackToKeyword ==
  call.fn \in {"ai", "hybrid", "validation"} =>
    LET kw == KeywordMapping(call.chars, call.words, Keywords(call.persona), 0, 0)
        over == call.daily_cost > 10 \/ call.monthly_cost > 100
    IN /\ over => (call.ai_calls = 0 /\ call.result = kw)
       /\ call.backend_error => call.result = kw

C27_OverwriteRefetchesAll ==
  <>(\A r \in crawl_urls : r.id \in call.fetched)

Quiescent ==
  /\ \A w \in Workers : wk[w].pc = "idle" /\ ~wk[w].registering
  /\ op.pc = "none"

\* C29: once the worker threads have ended and the manager calls have
\* returned, the registry holds no handle for the job, so that
\* is_crawl_running is false and the next start request is accepted.
C29_RegistryEmptyAfterWorkerEnds ==
  (Quiescent /\ runs > 0) => active_crawlers = NULL

\* C30: stop_crawl_job returns True whenever it found the job registered
\* and signalled its crawler, whether the worker has removed the registry
\* entry before the join returns or not.
C30_StopReturnsTrueWhenRegistered ==
  [][(op.pc = "join" /\ op.kind = "stop" /\ op'.pc = "none") =>
       stop_crawl_job_returns]_vars

====
